---------------------------- MODULE Spec2Model ----------------------------
(***************************************************************************)
(* A state-machine model of AgoraService (web/src/voice/AgoraService.ts):  *)
(* the connection state machine, the operation queue and its drain loop,   *)
(* the publish/unpublish procedures, the reconnection controller and the   *)
(* leave()/initialize() lifecycle, with the external transport as a        *)
(* nondeterministic collaborator.                                          *)
(*                                                                         *)
(* Scheduling.  JavaScript runs one task at a time.  Every `await` of the  *)
(* source is a suspension point.  An await of a transport promise (join,   *)
(* publish, unpublish, leave, createMicrophoneAudioTrack) is resumed by a  *)
(* settlement action in a later task.  An await of a promise that is       *)
(* already settled (an async function that returned or threw without       *)
(* suspending) is resumed in a microtask: the process waits at a "tick"    *)
(* location, where only facade calls of the caller and other microtasks    *)
(* may run before it, never a transport event, a timer or a settlement.    *)
(* The run of an inner async function to its end and the resumption of     *)
(* the function awaiting it are one step.                                  *)
(*                                                                         *)
(* Every step records what it did in `log` (the transitionTo calls, the    *)
(* errors emitted, the operations dispatched, ...); `log` is rewritten by  *)
(* each step, so a property reading it speaks about the last step.         *)
(***************************************************************************)
EXTENDS Integers, Sequences, FiniteSets, TLC

(***************************** bounds **************************************)
\* The environment's budget: a behaviour makes c facade calls and suffers f
\* transport failures or connection losses only for (c, f) under one of the
\* corners (1, FaultsOfOneCall), (2, FaultsOfTwoCalls), (3, FaultsOfThreeCalls),
\* (MaxCalls, FaultsOfMaxCalls): the more calls, the fewer failures.
MaxCalls == 4
FaultsOfMaxCalls == 1
FaultsOfThreeCalls == 2
FaultsOfTwoCalls == 4
FaultsOfOneCall == 6
FaultsLessSubscribed == 1
MaxQueue == 2
MaxDrains == 2
MaxTimers == 2
MaxJoins == 2
CountCap == 2

(************************* program constants *******************************)
maxReconnectAttempts == 5
reconnectBackoffBase == 1000
reconnectBackoffMax == 30000
MaxRetries == 3

(***************************** values **************************************)
\* The values of AgoraServiceState the service assigns (JOINED is declared
\* and never assigned) and of OperationType it enqueues (JOIN and LEAVE are
\* declared and never enqueued).
States == {"IDLE", "INITIALIZING", "JOINING", "READY", "PUBLISHING",
           "PUBLISHED", "RECONNECTING", "ERROR"}

OperationTypes == {"PUBLISH_VIDEO", "PUBLISH_AUDIO", "UNPUBLISH_VIDEO",
                   "UNPUBLISH_AUDIO"}

\* The states in which the queue is drained (source: READY or PUBLISHED).
Drainable == {"READY", "PUBLISHED"}

\* Session identities: a (uid, roomCode) pair is one value; 0 is null.
Ids == {1, 2}
NoId == 0

\* A raw failure: what its message contains, and its provider code.
\*   net    the message contains "network", "connection" or "timeout"
\*   perm   the message contains "permission" or "denied"
\*   joined the message contains "joined"
MkErr(n, p, j, c) == [net |-> n, perm |-> p, joined |-> j, code |-> c]

ErrNetwork == MkErr(TRUE, FALSE, FALSE, "NONE")
ErrPermission == MkErr(FALSE, TRUE, FALSE, "PERMISSION_DENIED")
ErrPermNet == MkErr(TRUE, TRUE, FALSE, "NONE")
ErrNotJoined == MkErr(FALSE, FALSE, TRUE, "INVALID_OPERATION")
ErrInvalidParam == MkErr(FALSE, FALSE, FALSE, "INVALID_PARAMETER")
ErrOther == MkErr(FALSE, FALSE, FALSE, "NONE")

\* The failures the transport may answer with.
TransportErrors == {ErrNetwork, ErrPermission, ErrPermNet, ErrNotJoined,
                    ErrInvalidParam, ErrOther}

\* The failures createMicrophoneAudioTrack may answer with.
MicrophoneErrors == {ErrPermission, ErrOther}

\* Failures raised by the service itself: `new Error('Client not
\* initialized')`, `new Error('Cannot publish ... in state: X')` and the
\* TypeError of a call on a null client.  None of their messages contains a
\* keyword of the classifier, and none has a code.
ErrClientNotInitialized == ErrOther
ErrCannotPublishInState == ErrOther
ErrTypeError == ErrOther

NoErr == MkErr(FALSE, FALSE, FALSE, "OK")

\* A track handle: pub is "none" when no handle is held, else the outcome
\* of the transport publish issued for it; en is its enabled flag; by is the
\* drain loop that created it (the handle's identity among handles alive at
\* the same time).  pub is "created" before client.publish is called for the
\* handle, "pending" while the call is in flight, then "ok" or "failed".
NoTrack == [pub |-> "none", en |-> FALSE, by |-> 0]
NewTrack(i) == [pub |-> "created", en |-> TRUE, by |-> i]
Held(t) == t.pub # "none"

\* A queued operation.  retryCount 0 is the source's `undefined`.  att,
\* defer, nj, old and auto are history fields: the dispatches of this queue
\* entry so far, whether it was enqueued in a non-drainable state and no
\* drainable state was entered since, whether it stands for a publish that
\* failed with the not-yet-joined failure, whether a leave() call has
\* started since it was enqueued, and whether the reconnection timer
\* callback submitted it.
MkOp(t, d, n) ==
  [type |-> t, retryCount |-> 0, att |-> 0, defer |-> d, nj |-> n,
   old |-> FALSE, auto |-> FALSE]
NoOp ==
  [type |-> "NONE", retryCount |-> 0, att |-> 0, defer |-> FALSE, nj |-> FALSE,
   old |-> FALSE, auto |-> FALSE]

IdleDrain == [pc |-> "idle", op |-> NoOp, res |-> NoErr]

Min(a, b) == IF a < b THEN a ELSE b
Pow2(n) == 2 ^ n
Bump(n) == IF n < CountCap THEN n + 1 ELSE n

\* The budget of the environment: c facade calls and f failures.  The call
\* a registered callback makes is not counted; a service with callbacks
\* registered is followed through FaultsLessSubscribed fewer failures.
Allowed(c, f) ==
  \/ c <= 1 /\ f <= FaultsOfOneCall
  \/ c <= 2 /\ f <= FaultsOfTwoCalls
  \/ c <= 3 /\ f <= FaultsOfThreeCalls
  \/ c <= MaxCalls /\ f <= FaultsOfMaxCalls

VARIABLES
  state,              \* this.state
  client,             \* this.client # null
  listeners,          \* the handlers of eventHandlers are attached to client
  tconn,              \* the transport's connection state of the client
  videoTrack,         \* this.tracks.videoTrack
  audioTrack,         \* this.tracks.audioTrack
  operationQueue,     \* this.operationQueue
  isProcessingQueue,  \* this.isProcessingQueue
  drains,             \* the running processOperationQueue loops
  reconnectAttempts,  \* this.reconnectAttempts
  reconnectTimer,     \* this.reconnectTimer: "null", "pending" or "fired"
  timers,             \* setTimeout callbacks scheduled and not yet run
  pendingReconnect,   \* this.pendingReconnect
  currentUid,         \* this.currentUid and this.currentRoomCode
  initPc,             \* the initialize() call before its join: its location
  initId,             \* ... and its (uid, roomCode) argument
  initRes,            \* ... and the outcome of its createClient
  initJoins,          \* initialize() calls suspended on client.join
  rejoinTick,         \* a timer callback suspended on its createClient
  rejoins,            \* timer callbacks suspended on client.join
  leavePc,            \* the leave() call: its location
  leaveForInit,       \* ... called by initialize()
  calls,              \* facade calls made so far
  faults,             \* transport failures and connection losses so far
  scenario,           \* the facade calls so far, as far as C6 follows them
  micCreated,         \* createMicrophoneAudioTrack resolutions (scenario)
  audioPublishCalls,  \* client.publish calls for an audio track (scenario)
  subscribers,        \* this.stateChangeCallbacks: what the callbacks do
  log                 \* what the last step did

vars == <<state, client, listeners, tconn, videoTrack, audioTrack,
          operationQueue, isProcessingQueue, drains, reconnectAttempts,
          reconnectTimer, timers, pendingReconnect, currentUid, initPc,
          initId, initRes, initJoins, rejoinTick, rejoins, leavePc,
          leaveForInit, calls, faults, scenario, micCreated,
          audioPublishCalls, subscribers, log>>

\* The service's fields as one record, so that the procedures of the source
\* are operators from record to record.  ovf is set when a step would pass
\* a bound of the model; such a step is not taken.
Cur ==
  [state |-> state, client |-> client, listeners |-> listeners,
   tconn |-> tconn, videoTrack |-> videoTrack, audioTrack |-> audioTrack,
   operationQueue |-> operationQueue,
   isProcessingQueue |-> isProcessingQueue, drains |-> drains,
   reconnectAttempts |-> reconnectAttempts,
   reconnectTimer |-> reconnectTimer, timers |-> timers,
   pendingReconnect |-> pendingReconnect, currentUid |-> currentUid,
   initPc |-> initPc, initId |-> initId, initRes |-> initRes,
   initJoins |-> initJoins, rejoinTick |-> rejoinTick, rejoins |-> rejoins,
   leavePc |-> leavePc, leaveForInit |-> leaveForInit, calls |-> calls,
   faults |-> faults, scenario |-> scenario,
   micCreated |-> micCreated, audioPublishCalls |-> audioPublishCalls,
   subscribers |-> subscribers, log |-> <<>>, ovf |-> FALSE]

Commit(m) ==
  /\ ~m.ovf
  /\ state' = m.state
  /\ client' = m.client
  /\ listeners' = m.listeners
  /\ tconn' = m.tconn
  /\ videoTrack' = m.videoTrack
  /\ audioTrack' = m.audioTrack
  /\ operationQueue' = m.operationQueue
  /\ isProcessingQueue' = m.isProcessingQueue
  /\ drains' = m.drains
  /\ reconnectAttempts' = m.reconnectAttempts
  /\ reconnectTimer' = m.reconnectTimer
  /\ timers' = m.timers
  /\ pendingReconnect' = m.pendingReconnect
  /\ currentUid' = m.currentUid
  /\ initPc' = m.initPc
  /\ initId' = m.initId
  /\ initRes' = m.initRes
  /\ initJoins' = m.initJoins
  /\ rejoinTick' = m.rejoinTick
  /\ rejoins' = m.rejoins
  /\ leavePc' = m.leavePc
  /\ leaveForInit' = m.leaveForInit
  /\ calls' = m.calls
  /\ faults' = m.faults
  /\ scenario' = m.scenario
  /\ micCreated' = m.micCreated
  /\ audioPublishCalls' = m.audioPublishCalls
  /\ subscribers' = m.subscribers
  /\ log' = m.log

Note(m, e) == [m EXCEPT !.log = Append(@, e)]


(*********************** error classifier **********************************)
ServiceError(t, r, e) ==
  [type |-> t, recoverable |-> r, code |-> e.code, joined |-> e.joined]

\* classifyError with the PERMISSION class recoverable.
classifyErrorPermissionRecoverable(e) ==
  IF e.net \/ e.code = "NETWORK_ERROR"
    THEN ServiceError("NETWORK", TRUE, e)
  ELSE IF e.perm \/ e.code = "PERMISSION_DENIED"
    THEN ServiceError("PERMISSION", TRUE, e)
  ELSE IF e.code = "INVALID_OPERATION" \/ e.code = "INVALID_PARAMETER"
    THEN ServiceError("SDK", TRUE, e)
  ELSE ServiceError("UNKNOWN", TRUE, e)

classifyError(e) ==
  IF e.net \/ e.code = "NETWORK_ERROR"
    THEN ServiceError("NETWORK", TRUE, e)
  ELSE IF e.perm \/ e.code = "PERMISSION_DENIED"
    THEN ServiceError("PERMISSION", FALSE, e)
  ELSE IF e.code = "INVALID_OPERATION" \/ e.code = "INVALID_PARAMETER"
    THEN ServiceError("SDK", TRUE, e)
  ELSE ServiceError("UNKNOWN", TRUE, e)

emitError(m, se) == Note(m, [k |-> "error", type |-> se.type])

(******************** state machine and queue ******************************)
RECURSIVE transitionTo(_, _)
RECURSIVE queueOperation(_, _, _)

FreeSlots(m) == {i \in 1..MaxDrains : m.drains[i].pc = "idle"}
FirstFree(m) == CHOOSE i \in FreeSlots(m) : \A j \in FreeSlots(m) : i <= j

\* Loop i is suspended at location pc on operation op; res is the outcome
\* to resume with when pc is "tick".
Suspend(m, i, pc, op, res) ==
  [m EXCEPT !.drains[i] = [pc |-> pc, op |-> op, res |-> res]]

\* doPublishVideo without the branch for a handle that exists.
doPublishVideoNoReuse(m, i, op) ==
  IF ~m.client THEN Suspend(m, i, "tick", op, ErrClientNotInitialized)
  ELSE IF m.state \notin Drainable
    THEN Suspend(m, i, "tick", op, ErrCannotPublishInState)
  ELSE LET m1 == transitionTo(m, "PUBLISHING")
           m2 == [m1 EXCEPT !.videoTrack =
                    [NewTrack(i) EXCEPT !.pub = "pending"]]
       IN Suspend(Note(m2, [k |-> "publishCall", media |-> "video"]),
                  i, "publishVideo", op, NoErr)

\* doPublishVideo up to its first suspension.
doPublishVideo(m, i, op) ==
  IF ~m.client THEN Suspend(m, i, "tick", op, ErrClientNotInitialized)
  ELSE IF m.state \notin Drainable
    THEN Suspend(m, i, "tick", op, ErrCannotPublishInState)
  ELSE IF Held(m.videoTrack)
    THEN Suspend([m EXCEPT !.videoTrack.en = TRUE], i, "tick", op, NoErr)
  ELSE LET m1 == transitionTo(m, "PUBLISHING")
           m2 == [m1 EXCEPT !.videoTrack =
                    [NewTrack(i) EXCEPT !.pub = "pending"]]
       IN Suspend(Note(m2, [k |-> "publishCall", media |-> "video"]),
                  i, "publishVideo", op, NoErr)

\* doPublishAudio up to its first suspension.
doPublishAudio(m, i, op) ==
  IF ~m.client THEN Suspend(m, i, "tick", op, ErrClientNotInitialized)
  ELSE IF m.state \notin Drainable
    THEN Suspend(m, i, "tick", op, ErrCannotPublishInState)
  ELSE IF Held(m.audioTrack)
    THEN Suspend([m EXCEPT !.audioTrack.en = TRUE], i, "tick", op, NoErr)
  ELSE Suspend(m, i, "createMicrophone", op, NoErr)

\* doUnpublishVideo / doUnpublishAudio has run its last statement on the
\* handle: the note tells whether the transport unpublish call was made and
\* whether a handle is held.
Unpublished(m, media, called) ==
  Note(m, [k |-> "unpublished", media |-> media, called |-> called,
           held |-> IF media = "video" THEN Held(m.videoTrack)
                    ELSE Held(m.audioTrack)])

\* doUnpublishVideo / doUnpublishAudio up to their first suspension.
doUnpublishVideo(m, i, op) ==
  IF ~Held(m.videoTrack) \/ ~m.client
    THEN Suspend(Unpublished(m, "video", FALSE), i, "tick", op, NoErr)
  ELSE Suspend(m, i, "unpublishVideo", op, NoErr)

doUnpublishAudio(m, i, op) ==
  IF ~Held(m.audioTrack) \/ ~m.client
    THEN Suspend(Unpublished(m, "audio", FALSE), i, "tick", op, NoErr)
  ELSE Suspend(m, i, "unpublishAudio", op, NoErr)

executeOperation(m, i, op0) ==
  LET op == [op0 EXCEPT !.att = @ + 1]
      m1 == Note(m, [k |-> "dispatch", op |-> op, state |-> m.state,
                     video |-> m.videoTrack, audio |-> m.audioTrack])
  IN CASE op.type = "PUBLISH_VIDEO" -> doPublishVideo(m1, i, op)
       [] op.type = "PUBLISH_AUDIO" -> doPublishAudio(m1, i, op)
       [] op.type = "UNPUBLISH_VIDEO" -> doUnpublishVideo(m1, i, op)
       [] op.type = "UNPUBLISH_AUDIO" -> doUnpublishAudio(m1, i, op)

\* The while loop that leaves isProcessingQueue set when it ends.
DrainLoopKeepFlag(m, i) ==
  IF m.operationQueue = <<>>
    THEN [m EXCEPT !.drains[i] = IdleDrain]
    ELSE executeOperation([m EXCEPT !.operationQueue = Tail(@)], i,
                          Head(m.operationQueue))

\* The head of the while loop of processOperationQueue, run by loop i.
DrainLoop(m, i) ==
  IF m.operationQueue = <<>>
    THEN [m EXCEPT !.isProcessingQueue = FALSE, !.drains[i] = IdleDrain]
    ELSE executeOperation([m EXCEPT !.operationQueue = Tail(@)], i,
                          Head(m.operationQueue))

\* processOperationQueue without the test of the in-flight flag.
processOperationQueueNoFlag(m) ==
  IF m.operationQueue = <<>> THEN m
  ELSE IF m.state \notin Drainable THEN m
  ELSE IF FreeSlots(m) = {} THEN [m EXCEPT !.ovf = TRUE]
  ELSE DrainLoop(Note([m EXCEPT !.isProcessingQueue = TRUE],
                      [k |-> "drainStart"]),
                 FirstFree(m))

processOperationQueue(m) ==
  IF m.isProcessingQueue \/ m.operationQueue = <<>> THEN m
  ELSE IF m.state \notin Drainable THEN m
  ELSE IF FreeSlots(m) = {} THEN [m EXCEPT !.ovf = TRUE]
  ELSE DrainLoop(Note([m EXCEPT !.isProcessingQueue = TRUE],
                      [k |-> "drainStart"]),
                 FirstFree(m))

\* The forEach over stateChangeCallbacks for the transition noted at place
\* tr of the log.  With subscribers = "none" no callback is registered.
\* Otherwise two callbacks are registered, of which the second only
\* observes; with subscribers = "publishVideo" the first calls
\* publishVideo(stream) the first time it is notified of READY, and with
\* subscribers = "observe" it has done so.
Notify(m, tr, newState) ==
  IF m.subscribers = "none" THEN m
  ELSE LET m1 == Note(m, [k |-> "observe", sub |-> 1, tr |-> tr,
                          next |-> newState])
           m2 == IF newState = "READY" /\ m.subscribers = "publishVideo"
                   THEN queueOperation(
                          Note([m1 EXCEPT
                                  !.subscribers = "observe",
                                  !.ovf = @ \/ Len(m1.operationQueue) >= MaxQueue],
                               [k |-> "callback", name |-> "publishVideo"]),
                          "PUBLISH_VIDEO", FALSE)
                   ELSE m1
       IN Note(m2, [k |-> "observe", sub |-> 2, tr |-> tr,
                    next |-> newState])

\* Entering READY or PUBLISHED ends the deferral of the queued operations.
Undefer(q) == [x \in DOMAIN q |-> [q[x] EXCEPT !.defer = FALSE]]

\* transitionTo that does not drain the queue on entering READY.
transitionToNoDrain(m, newState) ==
  IF m.state = newState
    THEN Note(m, [k |-> "transitionTo", prev |-> m.state, next |-> newState,
                  notified |-> FALSE, drain |-> FALSE])
  ELSE Note([m EXCEPT !.state = newState,
                      !.operationQueue =
                         IF newState \in Drainable THEN Undefer(@) ELSE @],
            [k |-> "transitionTo", prev |-> m.state, next |-> newState,
             notified |-> TRUE, drain |-> FALSE])

\* transitionTo without the early return for the state it is already in.
transitionToAlways(m, newState) ==
  LET m1 == [m EXCEPT !.state = newState,
                      !.operationQueue =
                         IF newState \in Drainable THEN Undefer(@) ELSE @]
      m2 == Note(m1, [k |-> "transitionTo", prev |-> m.state,
                      next |-> newState, notified |-> TRUE,
                      drain |-> newState = "READY"])
  IN IF newState = "READY" THEN processOperationQueue(m2) ELSE m2

transitionTo(m, newState) ==
  IF m.state = newState
    THEN Note(m, [k |-> "transitionTo", prev |-> m.state, next |-> newState,
                  notified |-> FALSE, drain |-> FALSE])
  ELSE LET m1 == [m EXCEPT !.state = newState,
                           !.operationQueue =
                              IF newState \in Drainable THEN Undefer(@) ELSE @]
           m2 == Note(m1, [k |-> "transitionTo", prev |-> m.state,
                           next |-> newState, notified |-> TRUE,
                           drain |-> newState = "READY"])
           m3 == Notify(m2, Len(m2.log), newState)
       IN IF newState = "READY" THEN processOperationQueue(m3) ELSE m3

queueOperation(m, type, nj) ==
  LET m1 == [m EXCEPT !.operationQueue =
               Append(@, MkOp(type, m.state \notin Drainable, nj))]
  IN IF m1.state \in Drainable THEN processOperationQueue(m1) ELSE m1

\* The publishAudio() call of the reconnection timer callback.
republishAudio(m) ==
  LET op == [MkOp("PUBLISH_AUDIO", m.state \notin Drainable, FALSE)
               EXCEPT !.auto = TRUE]
      m1 == [m EXCEPT !.operationQueue = Append(@, op)]
  IN IF m1.state \in Drainable THEN processOperationQueue(m1) ELSE m1

\* The failure of a transport publish before the join has settled.
NotJoined(se) == se.code = "INVALID_OPERATION" /\ se.joined

\* The catch block with the retry test one off: a 4th retry is granted.
DrainCatchOneMoreRetry(m, op, e) ==
  LET se == classifyError(e)
      m1 == Note(m, [k |-> "fail", op |-> op, type |-> se.type,
                     recoverable |-> se.recoverable, err |-> e])
      again == [op EXCEPT !.retryCount = @ + 1,
                          !.nj = @ \/ (NotJoined(se) /\ op.type = "PUBLISH_AUDIO")]
  IN IF se.recoverable /\ op.retryCount <= MaxRetries
       THEN Note([m1 EXCEPT !.operationQueue = <<again>> \o @],
                 [k |-> "requeue", op |-> op, pos |-> 1, nj |-> again.nj])
       ELSE Note(emitError(m1, se), [k |-> "drop", op |-> op])

\* The catch block of the drain loop.  The notes tell the failure, then the
\* retry (with the place in the queue the operation is put back at) or the
\* error emitted and the drop.
DrainCatch(m, op, e) ==
  LET se == classifyError(e)
      m1 == Note(m, [k |-> "fail", op |-> op, type |-> se.type,
                     recoverable |-> se.recoverable, err |-> e])
      again == [op EXCEPT !.retryCount = @ + 1,
                          !.nj = @ \/ (NotJoined(se) /\ op.type = "PUBLISH_AUDIO")]
  IN IF se.recoverable /\ (op.retryCount = 0 \/ op.retryCount < MaxRetries)
       THEN Note([m1 EXCEPT !.operationQueue = <<again>> \o @],
                 [k |-> "requeue", op |-> op, pos |-> 1, nj |-> again.nj])
       ELSE Note(emitError(m1, se), [k |-> "drop", op |-> op])

\* The awaited executeOperation returned / threw: the loop goes on.
OpReturned(m, i) ==
  DrainLoop(Note(m, [k |-> "done", op |-> m.drains[i].op]), i)

OpThrew(m, i, e) == DrainLoop(DrainCatch(m, m.drains[i].op, e), i)

\* The outcome of the transport publish, recorded on the handle it was
\* issued for, if that handle is still the one held.
Settle(t, i, outcome) ==
  IF Held(t) /\ t.by = i /\ t.pub = "pending" THEN [t EXCEPT !.pub = outcome]
  ELSE t

(******************* publish / unpublish, resumed **************************)
doPublishVideoResolved(m, i) ==
  LET m1 == [m EXCEPT !.videoTrack = Settle(@, i, "ok")]
  IN OpReturned(transitionTo(m1, "PUBLISHED"), i)

doPublishVideoRejected(m, i, e) ==
  LET se == classifyError(e)
      m1 == [m EXCEPT !.videoTrack = Settle(@, i, "failed")]
      m2 == transitionTo(m1, "READY")
  IN IF NotJoined(se)
       THEN OpReturned(
              queueOperation(
                Note(m2, [k |-> "requeue", op |-> m.drains[i].op,
                          pos |-> Len(m2.operationQueue) + 1, nj |-> TRUE]),
                "PUBLISH_VIDEO", TRUE), i)
       ELSE OpThrew(m2, i, e)

createMicrophoneResolved(m, i) ==
  LET m1 == [m EXCEPT !.audioTrack = NewTrack(i),
                      !.micCreated = IF m.scenario = "queued" THEN Bump(@) ELSE @]
  IN IF ~m1.client
       THEN OpThrew(emitError(m1, classifyError(ErrTypeError)), i, ErrTypeError)
       ELSE Suspend(
              Note([m1 EXCEPT !.audioTrack.pub = "pending",
                              !.audioPublishCalls =
                                 IF m.scenario = "queued" THEN Bump(@) ELSE @],
                   [k |-> "publishCall", media |-> "audio"]),
              i, "publishAudio", m.drains[i].op, NoErr)

createMicrophoneRejected(m, i, e) ==
  OpThrew(emitError(m, classifyError(e)), i, e)

doPublishAudioResolved(m, i) ==
  OpReturned([m EXCEPT !.audioTrack = Settle(@, i, "ok")], i)

doPublishAudioRejected(m, i, e) ==
  LET m1 == [m EXCEPT !.audioTrack = Settle(@, i, "failed")]
  IN OpThrew(emitError(m1, classifyError(e)), i, e)

\* doUnpublishVideo after client.unpublish resolved: stop() on a handle
\* that is gone throws a TypeError, which the catch block swallows.
doUnpublishVideoResolved(m) ==
  IF ~Held(m.videoTrack) THEN Unpublished(m, "video", TRUE)
  ELSE LET m1 == Unpublished([m EXCEPT !.videoTrack = NoTrack], "video", TRUE)
       IN IF m1.state = "PUBLISHED" THEN transitionTo(m1, "READY") ELSE m1

doUnpublishVideoRejected(m) ==
  Unpublished([m EXCEPT !.videoTrack = NoTrack], "video", TRUE)

doUnpublishAudioResolved(m) ==
  Unpublished([m EXCEPT !.audioTrack = NoTrack], "audio", TRUE)

doUnpublishAudioRejected(m) ==
  Unpublished([m EXCEPT !.audioTrack = NoTrack], "audio", TRUE)

(********************** reconnection controller ****************************)
\* startReconnection with the exhaustion test one off: a 6th attempt.
startReconnectionOneMore(m) ==
  IF m.pendingReconnect = NoId THEN m
  ELSE IF m.reconnectAttempts > maxReconnectAttempts
    THEN [transitionTo(m, "ERROR") EXCEPT !.pendingReconnect = NoId]
  ELSE LET n == m.reconnectAttempts + 1
           delay == Min(reconnectBackoffBase * Pow2(n - 1), reconnectBackoffMax)
           m1 == transitionTo([m EXCEPT !.reconnectAttempts = n], "RECONNECTING")
           m2 == Note(m1, [k |-> "reconnection", attempt |-> n,
                           maxAttempts |-> maxReconnectAttempts,
                           nextRetryDelay |-> delay])
       IN [m2 EXCEPT !.timers = @ + 1, !.reconnectTimer = "pending",
                     !.ovf = @ \/ m2.timers >= MaxTimers]

startReconnection(m) ==
  IF m.pendingReconnect = NoId THEN m
  ELSE IF m.reconnectAttempts >= maxReconnectAttempts
    THEN [transitionTo(m, "ERROR") EXCEPT !.pendingReconnect = NoId]
  ELSE LET n == m.reconnectAttempts + 1
           delay == Min(reconnectBackoffBase * Pow2(n - 1), reconnectBackoffMax)
           m1 == transitionTo([m EXCEPT !.reconnectAttempts = n], "RECONNECTING")
           m2 == Note(m1, [k |-> "reconnection", attempt |-> n,
                           maxAttempts |-> maxReconnectAttempts,
                           nextRetryDelay |-> delay])
       IN [m2 EXCEPT !.timers = @ + 1, !.reconnectTimer = "pending",
                     !.ovf = @ \/ m2.timers >= MaxTimers]

handleDisconnection(m) ==
  IF m.currentUid # NoId
    THEN startReconnection([m EXCEPT !.pendingReconnect = m.currentUid])
    ELSE transitionTo(m, "ERROR")

\* createClient when this.client is null: AgoraRTC.createClient and
\* setupEventListeners.  A new client is not connected.
createClient(m) ==
  [m EXCEPT !.client = TRUE, !.listeners = TRUE, !.tconn = "DISCONNECTED"]

\* joinChannel with a client, up to its await of client.join.
joinChannel(m) ==
  LET m1 == transitionTo(m, "JOINING")
  IN [m1 EXCEPT !.tconn = IF @ = "DISCONNECTED" THEN "CONNECTING" ELSE @]

\* The timer callback from its joinChannel call on.  With pendingReconnect
\* null the argument `this.pendingReconnect!.uid` throws; without a client
\* joinChannel throws before its transition; both land in the catch block.
rejoin(m) ==
  IF m.pendingReconnect = NoId \/ ~m.client THEN startReconnection(m)
  ELSE LET m1 == joinChannel(m)
       IN [m1 EXCEPT !.rejoins = @ + 1, !.ovf = @ \/ m1.rejoins + m1.initJoins >= MaxJoins]

(***************************** initialize **********************************)
\* initialize() from `this.currentUid = uid` to its await of createClient.
initializeSession(m, id, createFails) ==
  LET m1 == transitionTo([m EXCEPT !.currentUid = id], "INITIALIZING")
  IN IF m1.client THEN [m1 EXCEPT !.initPc = "tick", !.initRes = "ok"]
     ELSE IF createFails THEN [m1 EXCEPT !.initPc = "tick", !.initRes = "fail"]
     ELSE [createClient(m1) EXCEPT !.initPc = "tick", !.initRes = "ok"]

\* The catch block of initialize().
initializeCatch(m, e) ==
  LET se == classifyError(e)
  IN emitError(transitionTo(m, "ERROR"), se)

(******************************* leave *************************************)
\* leave() from its cleanup block to its end.
leaveCleanup(m) ==
  LET m1 == [m EXCEPT !.client = FALSE, !.listeners = FALSE,
                      !.videoTrack = NoTrack, !.audioTrack = NoTrack,
                      !.currentUid = NoId, !.pendingReconnect = NoId,
                      !.reconnectAttempts = 0]
      m2 == Note(transitionTo(m1, "IDLE"), [k |-> "leaveResolved"])
  IN [m2 EXCEPT !.leavePc = "idle", !.leaveForInit = FALSE,
                !.initPc = IF m.leaveForInit THEN "afterLeave" ELSE @]

\* leave() from removeEventListeners on.
leaveChannel(m) ==
  IF m.client
    THEN [m EXCEPT !.listeners = FALSE, !.tconn = "DISCONNECTED",
                   !.leavePc = "clientLeave"]
    ELSE leaveCleanup(m)

\* leave() from `if (this.tracks.audioTrack)` on.
leaveAudio(m) ==
  IF Held(m.audioTrack)
    THEN IF m.client THEN [m EXCEPT !.leavePc = "unpublishAudio"]
         ELSE [Unpublished(m, "audio", FALSE) EXCEPT !.leavePc = "tickAudio"]
    ELSE leaveChannel(m)

\* leave() from `if (this.tracks.videoTrack)` on.
leaveVideo(m) ==
  IF Held(m.videoTrack)
    THEN IF m.client THEN [m EXCEPT !.leavePc = "unpublishVideo"]
         ELSE [Unpublished(m, "video", FALSE) EXCEPT !.leavePc = "tickVideo"]
    ELSE leaveAudio(m)

\* The operations in flight in a drain loop when leave() starts.
Outdated(d) ==
  [i \in DOMAIN d |->
     IF d[i].pc = "idle" THEN d[i] ELSE [d[i] EXCEPT !.op.old = TRUE]]

leave(m, forInit) ==
  leaveVideo([m EXCEPT !.timers = IF m.reconnectTimer = "pending" THEN @ - 1 ELSE @,
                       !.reconnectTimer = "null",
                       !.operationQueue = <<>>,
                       !.isProcessingQueue = FALSE,
                       !.drains = Outdated(@),
                       !.leaveForInit = forInit])

(****************************** scheduling *********************************)
\* A process waits for a microtask: no task (event, timer, settlement) runs.
MicroPending ==
  \/ initPc \in {"tick", "afterLeave"}
  \/ rejoinTick # "none"
  \/ leavePc \in {"tickVideo", "tickAudio"}
  \/ \E i \in 1..MaxDrains : drains[i].pc = "tick"

FaultsSpent ==
  faults + IF subscribers = "none" THEN 0 ELSE FaultsLessSubscribed

CanCall == Allowed(calls + 1, FaultsSpent)

\* The scenario of C6: initialize() as the first call, then publishAudio()
\* while JOINING, and no other facade call.
ScenarioAfter(name) ==
  IF scenario = "start" /\ name = "initialize" THEN "initialized"
  ELSE IF scenario = "initialized" /\ name = "publishAudio" /\ state = "JOINING"
    THEN "queued"
  ELSE "off"

Call(name) ==
  Note([Cur EXCEPT !.calls = @ + 1, !.scenario = ScenarioAfter(name),
                   !.micCreated = 0, !.audioPublishCalls = 0],
       [k |-> "call", name |-> name])

\* A call of initialize(uid, roomCode) with the pair id: the note tells the
\* pair and the state the service held when it was called.
CallInitialize(id) ==
  Note(Call("initialize"),
       [k |-> "initialize", id |-> id, uid |-> currentUid, state |-> state])

\* A failure or connection loss the transport causes.
CanFail == Allowed(calls, FaultsSpent + 1)
Fault == [Cur EXCEPT !.faults = @ + 1]

(******************************* Init **************************************)
\* The fields of a service as its constructor leaves them.
Constructed ==
  /\ state = "IDLE"
  /\ client = FALSE
  /\ listeners = FALSE
  /\ tconn = "DISCONNECTED"
  /\ videoTrack = NoTrack
  /\ audioTrack = NoTrack
  /\ operationQueue = <<>>
  /\ isProcessingQueue = FALSE
  /\ drains = [i \in 1..MaxDrains |-> IdleDrain]
  /\ reconnectAttempts = 0
  /\ reconnectTimer = "null"
  /\ timers = 0
  /\ pendingReconnect = NoId
  /\ currentUid = NoId
  /\ initPc = "idle"
  /\ initId = NoId
  /\ initRes = "ok"
  /\ initJoins = 0
  /\ rejoinTick = "none"
  /\ rejoins = 0
  /\ leavePc = "idle"
  /\ leaveForInit = FALSE
  /\ calls = 0
  /\ faults = 0
  /\ scenario = "start"
  /\ micCreated = 0
  /\ audioPublishCalls = 0
  /\ log = <<>>

\* A service on which no state-change callback is registered.
Init == Constructed /\ subscribers = "none"

\* A service on which onStateChange has registered two callbacks, the first
\* of which calls publishVideo(stream) when it is notified of READY.
InitSubscribed == Constructed /\ subscribers = "publishVideo"

(************************** facade calls ***********************************)
CanEnqueue == CanCall /\ Len(operationQueue) < MaxQueue

PublishVideo ==
  /\ CanEnqueue
  /\ Commit(queueOperation(Call("publishVideo"), "PUBLISH_VIDEO", FALSE))

PublishAudio ==
  /\ CanEnqueue
  /\ Commit(queueOperation(Call("publishAudio"), "PUBLISH_AUDIO", FALSE))

UnpublishVideo ==
  /\ CanEnqueue
  /\ Commit(queueOperation(Call("unpublishVideo"), "UNPUBLISH_VIDEO", FALSE))

UnpublishAudio ==
  /\ CanEnqueue
  /\ Commit(queueOperation(Call("unpublishAudio"), "UNPUBLISH_AUDIO", FALSE))

SetVideoEnabled ==
  /\ CanCall
  /\ Held(videoTrack)
  /\ \E b \in BOOLEAN :
       /\ b # videoTrack.en
       /\ Commit([Call("setVideoEnabled") EXCEPT !.videoTrack.en = b])

\* initialize(uid, roomCode) for a pair it returns at once for.
InitializeSame ==
  /\ CanCall
  /\ \E id \in Ids :
       /\ currentUid = id
       /\ state \in {"READY", "PUBLISHED", "JOINING", "INITIALIZING"}
       /\ Commit(CallInitialize(id))

\* initialize(uid, roomCode) that first awaits leave().
InitializeLeave ==
  /\ CanCall
  /\ initPc = "idle"
  /\ leavePc = "idle"
  /\ state \notin {"IDLE", "ERROR"}
  /\ \E id \in Ids :
       /\ ~(currentUid = id
            /\ state \in {"READY", "PUBLISHED", "JOINING", "INITIALIZING"})
       /\ currentUid = NoId => id = 1
       /\ Commit(leave([CallInitialize(id) EXCEPT !.initId = id,
                                                     !.initPc = "leave"], TRUE))

\* initialize(uid, roomCode) from IDLE or ERROR.
InitializeFresh ==
  /\ CanCall
  /\ initPc = "idle"
  /\ state \in {"IDLE", "ERROR"}
  /\ \E id \in Ids, createFails \in BOOLEAN :
       /\ createFails => ~client /\ CanFail
       /\ currentUid = NoId => id = 1
       /\ Commit(initializeSession(
                   [CallInitialize(id) EXCEPT !.faults =
                      IF createFails THEN @ + 1 ELSE @], id, createFails))

Leave ==
  /\ CanCall
  /\ leavePc = "idle"
  /\ Commit(leave(Call("leave"), FALSE))

(********************* initialize(), resumed *******************************)
InitializeAfterLeave ==
  /\ initPc = "afterLeave"
  /\ \E createFails \in BOOLEAN :
       /\ createFails => ~client /\ CanFail
       /\ Commit(initializeSession(
                   [Cur EXCEPT !.initPc = "idle", !.initId = NoId,
                               !.faults = IF createFails THEN @ + 1 ELSE @],
                   initId, createFails))

\* After `await this.createClient()`: the catch block, or joinChannel.
InitializeJoin ==
  /\ initPc = "tick"
  /\ LET m == [Cur EXCEPT !.initPc = "idle"]
     IN IF initRes = "fail" \/ ~client
          THEN Commit(initializeCatch(m, ErrClientNotInitialized))
          ELSE LET m1 == joinChannel(m)
               IN Commit([m1 EXCEPT !.initJoins = @ + 1,
                                    !.ovf = @ \/ m1.rejoins + m1.initJoins >= MaxJoins])

InitializeJoinResolved ==
  /\ ~MicroPending
  /\ initJoins > 0
  /\ Commit(Note([Cur EXCEPT !.initJoins = @ - 1], [k |-> "joined"]))

\* The catch block of joinChannel, then the catch block of initialize().
InitializeJoinRejected ==
  /\ ~MicroPending
  /\ initJoins > 0
  /\ CanFail
  /\ \E e \in TransportErrors :
       Commit(initializeCatch(
                transitionTo([Fault EXCEPT !.initJoins = @ - 1], "ERROR"), e))

(************************ leave(), resumed *********************************)
LeaveUnpublishVideoSettled ==
  /\ ~MicroPending
  /\ leavePc = "unpublishVideo"
  /\ \/ Commit(leaveAudio(doUnpublishVideoResolved(Cur)))
     \/ CanFail /\ Commit(leaveAudio(doUnpublishVideoRejected(Fault)))

LeaveUnpublishAudioSettled ==
  /\ ~MicroPending
  /\ leavePc = "unpublishAudio"
  /\ \/ Commit(leaveChannel(doUnpublishAudioResolved(Cur)))
     \/ CanFail /\ Commit(leaveChannel(doUnpublishAudioRejected(Fault)))

\* doUnpublishVideo / doUnpublishAudio returned at once, for want of a client.
LeaveTick ==
  /\ leavePc \in {"tickVideo", "tickAudio"}
  /\ Commit(IF leavePc = "tickVideo" THEN leaveAudio(Cur) ELSE leaveChannel(Cur))

\* client.leave() resolved or rejected: the rest of leave() is the same.
LeaveClientLeft ==
  /\ ~MicroPending
  /\ leavePc = "clientLeave"
  /\ Commit(leaveCleanup(Cur))

(************************* transport events ********************************)
Listening == client /\ listeners /\ ~MicroPending

ConnectionConnected ==
  /\ Listening
  /\ tconn \in {"CONNECTING", "RECONNECTING"}
  /\ LET m == Note([Cur EXCEPT !.tconn = "CONNECTED"], [k |-> "CONNECTED"])
         m1 == IF m.state = "JOINING" THEN transitionTo(m, "READY") ELSE m
     IN Commit([m1 EXCEPT !.reconnectAttempts = 0])

ConnectionDisconnected ==
  /\ Listening
  /\ tconn # "DISCONNECTED"
  /\ CanFail
  /\ LET m == Note([Fault EXCEPT !.tconn = "DISCONNECTED"], [k |-> "DISCONNECTED"])
     IN Commit(IF m.state # "IDLE" /\ m.state # "ERROR"
                 THEN handleDisconnection(m) ELSE m)

ConnectionReconnecting ==
  /\ Listening
  /\ tconn = "CONNECTED"
  /\ CanFail
  /\ LET m == Note([Fault EXCEPT !.tconn = "RECONNECTING"], [k |-> "RECONNECTING"])
     IN Commit(IF m.state # "RECONNECTING"
                 THEN transitionTo(m, "RECONNECTING") ELSE m)

(************************ reconnection timer *******************************)
\* A scheduled callback runs: the one reconnectTimer holds, or an earlier one
\* that a later setTimeout left scheduled.
TimerFired ==
  /\ ~MicroPending
  /\ timers > 0
  /\ \E held \in BOOLEAN, createFails \in BOOLEAN :
       /\ held => reconnectTimer = "pending"
       /\ ~held => (timers > 1 \/ reconnectTimer # "pending")
       /\ createFails => ~client /\ CanFail
       /\ LET m == Note([Cur EXCEPT !.timers = @ - 1,
                                    !.faults = IF createFails THEN @ + 1 ELSE @,
                                    !.reconnectTimer = IF held THEN "fired" ELSE @],
                        [k |-> "timer", state |-> state,
                         pending |-> pendingReconnect])
          IN Commit(IF m.client THEN rejoin(m)
                    ELSE IF createFails THEN [m EXCEPT !.rejoinTick = "fail"]
                    ELSE [createClient(m) EXCEPT !.rejoinTick = "ok"])

RejoinAfterCreate ==
  /\ rejoinTick # "none"
  /\ LET m == Note([Cur EXCEPT !.rejoinTick = "none"],
                   [k |-> "timer", state |-> state, pending |-> pendingReconnect])
     IN Commit(IF rejoinTick = "fail" THEN startReconnection(m) ELSE rejoin(m))

RejoinResolved ==
  /\ ~MicroPending
  /\ rejoins > 0
  /\ LET m == Note([Cur EXCEPT !.rejoins = @ - 1], [k |-> "rejoined", state |-> state,
                    pending |-> pendingReconnect, audio |-> audioTrack])
     IN Commit(IF Held(m.audioTrack) THEN republishAudio(m) ELSE m)

RejoinRejected ==
  /\ ~MicroPending
  /\ rejoins > 0
  /\ CanFail
  /\ LET m == Note([Fault EXCEPT !.rejoins = @ - 1],
                   [k |-> "rejoinFailed", attempts |-> reconnectAttempts,
                    state |-> state, pending |-> pendingReconnect])
     IN Commit(startReconnection(transitionTo(m, "ERROR")))

(************************ drain loops, resumed *****************************)
DrainTick(i) ==
  /\ drains[i].pc = "tick"
  /\ Commit(IF drains[i].res = NoErr THEN OpReturned(Cur, i)
            ELSE OpThrew(Cur, i, drains[i].res))

PublishVideoResolved(i) ==
  /\ ~MicroPending
  /\ drains[i].pc = "publishVideo"
  /\ Commit(doPublishVideoResolved(Cur, i))

PublishVideoRejected(i) ==
  /\ ~MicroPending
  /\ drains[i].pc = "publishVideo"
  /\ CanFail
  /\ \E e \in TransportErrors : Commit(doPublishVideoRejected(Fault, i, e))

CreateMicrophoneResolved(i) ==
  /\ ~MicroPending
  /\ drains[i].pc = "createMicrophone"
  /\ Commit(createMicrophoneResolved(Cur, i))

CreateMicrophoneRejected(i) ==
  /\ ~MicroPending
  /\ drains[i].pc = "createMicrophone"
  /\ CanFail
  /\ \E e \in MicrophoneErrors : Commit(createMicrophoneRejected(Fault, i, e))

PublishAudioResolved(i) ==
  /\ ~MicroPending
  /\ drains[i].pc = "publishAudio"
  /\ Commit(doPublishAudioResolved(Cur, i))

PublishAudioRejected(i) ==
  /\ ~MicroPending
  /\ drains[i].pc = "publishAudio"
  /\ CanFail
  /\ \E e \in TransportErrors : Commit(doPublishAudioRejected(Fault, i, e))

UnpublishVideoSettled(i) ==
  /\ ~MicroPending
  /\ drains[i].pc = "unpublishVideo"
  /\ \/ Commit(OpReturned(doUnpublishVideoResolved(Cur), i))
     \/ CanFail /\ Commit(OpReturned(doUnpublishVideoRejected(Fault), i))

UnpublishAudioSettled(i) ==
  /\ ~MicroPending
  /\ drains[i].pc = "unpublishAudio"
  /\ \/ Commit(OpReturned(doUnpublishAudioResolved(Cur), i))
     \/ CanFail /\ Commit(OpReturned(doUnpublishAudioRejected(Fault), i))

Drain ==
  \E i \in 1..MaxDrains :
    \/ DrainTick(i)
    \/ PublishVideoResolved(i)
    \/ PublishVideoRejected(i)
    \/ CreateMicrophoneResolved(i)
    \/ CreateMicrophoneRejected(i)
    \/ PublishAudioResolved(i)
    \/ PublishAudioRejected(i)
    \/ UnpublishVideoSettled(i)
    \/ UnpublishAudioSettled(i)

Next ==
  \/ PublishVideo
  \/ PublishAudio
  \/ UnpublishVideo
  \/ UnpublishAudio
  \/ SetVideoEnabled
  \/ InitializeSame
  \/ InitializeLeave
  \/ InitializeFresh
  \/ Leave
  \/ InitializeAfterLeave
  \/ InitializeJoin
  \/ InitializeJoinResolved
  \/ InitializeJoinRejected
  \/ LeaveUnpublishVideoSettled
  \/ LeaveUnpublishAudioSettled
  \/ LeaveTick
  \/ LeaveClientLeft
  \/ ConnectionConnected
  \/ ConnectionDisconnected
  \/ ConnectionReconnecting
  \/ TimerFired
  \/ RejoinAfterCreate
  \/ RejoinResolved
  \/ RejoinRejected
  \/ Drain

Spec == Init /\ [][Next]_vars

SpecSubscribed == InitSubscribed /\ [][Next]_vars

\* A drain with no further enqueue.  The service is where publish/unpublish
\* calls made in IDLE, then initialize(), then the resolution of its join
\* leave it: JOINING, with the operations queued.  From there the transport
\* reports its connection states and every transport call awaited by the
\* drain loop eventually returns.  The caller makes no further call and the
\* reconnection timer, whose callback enqueues PUBLISH_AUDIO, does not fire.
QueuedOps == {MkOp(t, TRUE, FALSE) : t \in OperationTypes}

InitQueued ==
  /\ state = "JOINING"
  /\ client = TRUE
  /\ listeners = TRUE
  /\ tconn = "CONNECTING"
  /\ videoTrack = NoTrack
  /\ audioTrack = NoTrack
  /\ operationQueue \in UNION {[1..n -> QueuedOps] : n \in 1..MaxQueue}
  /\ isProcessingQueue = FALSE
  /\ drains = [i \in 1..MaxDrains |-> IdleDrain]
  /\ reconnectAttempts = 0
  /\ reconnectTimer = "null"
  /\ timers = 0
  /\ pendingReconnect = NoId
  /\ currentUid = 1
  /\ initPc = "idle"
  /\ initId = NoId
  /\ initRes = "ok"
  /\ initJoins = 0
  /\ rejoinTick = "none"
  /\ rejoins = 0
  /\ leavePc = "idle"
  /\ leaveForInit = FALSE
  /\ calls = Len(operationQueue) + 1
  /\ faults = 0
  /\ scenario = "off"
  /\ micCreated = 0
  /\ audioPublishCalls = 0
  /\ subscribers = "none"
  /\ log = <<[k |-> "joined"]>>

NextQueued ==
  \/ ConnectionConnected
  \/ ConnectionDisconnected
  \/ ConnectionReconnecting
  \/ Drain

SpecDrain == InitQueued /\ [][NextQueued]_vars /\ WF_vars(Drain)

(***************************************************************************)
(*                             properties                                  *)
(***************************************************************************)
Notes(kind) == {j \in 1..Len(log) : log[j].k = kind}
Running == {i \in 1..MaxDrains : drains[i].pc # "idle"}

\* C1: at the moment leave() resolves, the operation queue is empty, no
\* audio and no video handle is held and the state is IDLE, whatever
\* happened while leave() was suspended.
C1_LeaveLeavesNothing ==
  Notes("leaveResolved") # {} =>
    /\ operationQueue = <<>>
    /\ ~Held(videoTrack)
    /\ ~Held(audioTrack)
    /\ state = "IDLE"

\* The legal graph of the state machine.
LegalEdges ==
  {<<"IDLE", "INITIALIZING">>, <<"ERROR", "INITIALIZING">>,
   <<"INITIALIZING", "JOINING">>, <<"JOINING", "READY">>,
   <<"READY", "PUBLISHING">>, <<"PUBLISHING", "PUBLISHED">>,
   <<"READY", "RECONNECTING">>, <<"PUBLISHED", "RECONNECTING">>,
   <<"RECONNECTING", "READY">>}
  \cup {<<s, "ERROR">> : s \in {"INITIALIZING", "JOINING", "READY",
                                "PUBLISHING", "PUBLISHED", "RECONNECTING"}}
  \cup {<<s, "IDLE">> : s \in States \ {"IDLE"}}

\* C2: every state change delivered to a state-change subscriber, as a pair
\* (previousState, newState), is an edge of the legal graph.
C2_OnlyLegalTransitions ==
  \A j \in Notes("transitionTo") :
    log[j].notified => <<log[j].prev, log[j].next>> \in LegalEdges

\* C3: a queued operation whose attempts fail with a recoverable error is
\* dispatched at most 4 times, its retryCount going 1, 2, 3; when its 4th
\* attempt fails it is not put back: an error is emitted and it is dropped.
C3_AtMostThreeRetries ==
  /\ \A j \in 1..Len(operationQueue) :
       operationQueue[j].retryCount <= 3 /\ operationQueue[j].att <= 3
  /\ \A j \in Notes("dispatch") :
       log[j].op.att <= 4 /\ log[j].op.att = log[j].op.retryCount + 1
  /\ \A j \in Notes("fail") :
       (log[j].recoverable /\ log[j].op.att = 4) =>
         /\ j + 2 <= Len(log)
         /\ log[j + 1].k = "error"
         /\ log[j + 2].k = "drop" /\ log[j + 2].op = log[j].op

C3_Witness ==
  \E j \in Notes("fail") :
    /\ log[j].recoverable /\ log[j].op.att = 4
    /\ j + 2 <= Len(log) /\ log[j + 2].k = "drop"

C5_NoDispatchBeforeDrainable ==
  \A j \in Notes("dispatch") : ~log[j].op.defer

\* C6: initialize(), then publishAudio() while JOINING, no other facade call
\* and no failure.  Until the transport reports CONNECTED the operation
\* waits in the queue; from then on the state is READY and the operation is
\* executed exactly once: one microphone track, one transport publish call.
InScenario == scenario = "queued" /\ faults = 0

C6_Published ==
  /\ Running = {}
  /\ operationQueue = <<>>
  /\ micCreated = 1
  /\ audioPublishCalls = 1
  /\ audioTrack.pub = "ok"

C6_QueuedAudioPublishedOnce ==
  InScenario =>
    /\ micCreated <= 1
    /\ audioPublishCalls <= 1
    /\ tconn # "CONNECTED" =>
         /\ state = "JOINING"
         /\ Running = {}
         /\ Len(operationQueue) = 1
         /\ micCreated = 0 /\ audioPublishCalls = 0
    /\ tconn = "CONNECTED" =>
         /\ state = "READY"
         /\ \/ C6_Published
            \/ /\ Running = {1}
               /\ operationQueue = <<>>
               /\ drains[1].op.att = 1
               /\ \/ /\ drains[1].pc = "createMicrophone"
                     /\ micCreated = 0 /\ audioPublishCalls = 0
                  \/ /\ drains[1].pc = "publishAudio"
                     /\ micCreated = 1 /\ audioPublishCalls = 1

C6_Witness == InScenario /\ tconn = "CONNECTED" /\ C6_Published

\* C7: while a video handle exists, the dispatch of a PUBLISH_VIDEO creates
\* no second handle and issues no transport publish call; it enables the
\* handle that exists (when the client exists and the state allows a
\* publish) and changes nothing else of it.
C7_OneVideoHandle ==
  \A j \in Notes("dispatch") :
    (log[j].op.type = "PUBLISH_VIDEO" /\ Held(log[j].video)) =>
      /\ \A n \in (j + 1)..Len(log) :
           (\A d \in Notes("dispatch") : ~(j < d /\ d <= n)) =>
             /\ log[n].k # "publishCall"
             /\ ~(log[n].k = "transitionTo" /\ log[n].next = "PUBLISHING")
      /\ videoTrack \in {log[j].video, [log[j].video EXCEPT !.en = TRUE]}
      /\ (client /\ state \in Drainable) => videoTrack.en

C7_Witness ==
  \E j \in Notes("dispatch") :
    /\ log[j].op.type = "PUBLISH_VIDEO"
    /\ Held(log[j].video) /\ ~log[j].video.en
    /\ videoTrack.en /\ videoTrack.pub = "ok"

\* C8: every ReconnectionEvent carries nextRetryDelay =
\* min(base * 2^(attempt-1), cap), that is 1000, 2000, 4000, 8000, 16000 for
\* the attempts 1..5; there is no attempt 6; when the rejoin of attempt 5
\* fails the state becomes ERROR, no timer is scheduled and the reconnection
\* memory is cleared, and a timer callback or the continuation of a rejoin
\* that runs afterwards leaves the state ERROR and schedules nothing.
DelayTable == <<1000, 2000, 4000, 8000, 16000>>

C9_NotJoinedRepublished ==
  /\ \A j \in Notes("requeue") : log[j].nj => log[j].pos = 1
  /\ \A j \in Notes("done") :
       /\ (log[j].op.nj /\ log[j].op.type = "PUBLISH_VIDEO") =>
            videoTrack.pub = "ok"
       /\ (log[j].op.nj /\ log[j].op.type = "PUBLISH_AUDIO") =>
            audioTrack.pub = "ok"

\* C10: transitionTo(s) while the state is s changes nothing: no subscriber
\* is notified and no drain is started.
C10_SameStateNoOp ==
  \A j \in Notes("transitionTo") :
    log[j].prev = log[j].next =>
      /\ ~log[j].notified
      /\ ~log[j].drain
      /\ j < Len(log) => log[j + 1].k # "drainStart"

C10_Witness ==
  \E j \in Notes("transitionTo") :
    /\ log[j].prev = "READY" /\ log[j].next = "READY"
    /\ operationQueue # <<>>

\* The notes of the step that leads to the next state.
NotesNext(kind) == {j \in 1..Len(log') : log'[j].k = kind}

\* C11: initialize(u, r) called while the pair (u, r) is held and the state
\* is INITIALIZING, JOINING, READY, PUBLISHING, PUBLISHED or RECONNECTING
\* changes neither the state, the queue, the track handles nor the client,
\* and issues no transport leave and no join.
ActiveStates == {"INITIALIZING", "JOINING", "READY", "PUBLISHING",
                 "PUBLISHED", "RECONNECTING"}

C11_SamePairIdempotent ==
  [][\A j \in NotesNext("initialize") :
       (log'[j].id = log'[j].uid /\ log'[j].state \in ActiveStates) =>
         /\ state' = state
         /\ operationQueue' = operationQueue
         /\ videoTrack' = videoTrack
         /\ audioTrack' = audioTrack
         /\ client' = client
         /\ leavePc' = leavePc
         /\ initJoins' = initJoins]_vars

\* C12: a failure of the client creation or of the join call of
\* initialize() leaves the state ERROR with an error emitted; and a
\* DISCONNECTED signal received in INITIALIZING or JOINING, before the
\* session has been READY and with no reconnection begun, schedules no
\* reconnection timer and starts no rejoin.
C12_InitializeNotRetried ==
  [][/\ (initJoins' < initJoins /\ faults' > faults) =>
          state' = "ERROR" /\ NotesNext("error") # {}
     /\ (initPc = "tick" /\ initRes = "fail" /\ initPc' = "idle") =>
          state' = "ERROR" /\ NotesNext("error") # {}
     /\ (/\ NotesNext("DISCONNECTED") # {}
         /\ state \in {"INITIALIZING", "JOINING"}
         /\ pendingReconnect = NoId) =>
          /\ timers' = timers
          /\ rejoins' = rejoins
          /\ NotesNext("reconnection") = {}]_vars

\* C13: a publishVideo, publishAudio, unpublishVideo or unpublishAudio call
\* has, when it returns, appended one operation to the queue and done
\* nothing else: the state and both track handles are as before and no
\* state-change subscriber has been notified.
EnqueueCalls == {"publishVideo", "publishAudio", "unpublishVideo",
                 "unpublishAudio"}

OpOfCall(name) ==
  CASE name = "publishVideo" -> "PUBLISH_VIDEO"
    [] name = "publishAudio" -> "PUBLISH_AUDIO"
    [] name = "unpublishVideo" -> "UNPUBLISH_VIDEO"
    [] name = "unpublishAudio" -> "UNPUBLISH_AUDIO"

C14_NoTimerAfterLeave ==
  (currentUid = NoId /\ leavePc = "idle" /\ initPc = "idle") =>
    /\ timers = 0
    /\ rejoinTick = "none"
    /\ Notes("timer") = {}

\* C15: no operation that was enqueued before a leave() call started is
\* dispatched after that call started; in particular the operation that was
\* in flight then is not put back and dispatched again when it fails.
C15_LeaveAbandonsWork ==
  \A j \in Notes("dispatch") : ~log[j].op.old

\* C16: the session identity never changes from one pair directly to a
\* different pair while a client or a track handle of the earlier pair is
\* held: the earlier session has been torn down before.
C16_TearDownBeforeNewPair ==
  [][(currentUid # NoId /\ currentUid' # NoId /\ currentUid' # currentUid) =>
       /\ ~client
       /\ ~Held(videoTrack)
       /\ ~Held(audioTrack)]_vars

\* C17: a drain dispatches an operation only while the state is READY or
\* PUBLISHED: once the state is another one, the running drain dispatches
\* nothing more.
C17_DrainStopsOutsideDrainable ==
  \A j \in Notes("dispatch") : log[j].state \in Drainable

\* C18: at most one drain loop is active at any time.
C18_OneDrainLoop == Cardinality(Running) <= 1

\* C19: an attempt of a queued operation that fails is reported to the
\* error subscribers only by the drain loop and only when the operation is
\* dropped: no error has been emitted for the attempt before the loop
\* catches its failure, and none is emitted when it is put back.
C19_ErrorOnlyOnDrop ==
  \A j \in Notes("fail") :
    /\ j > 1 => log[j - 1].k # "error"
    /\ (j < Len(log) /\ log[j + 1].k = "requeue") =>
         \A n \in Notes("error") : n < j - 1 \/ n > j + 1

\* C20: the state leaves IDLE or ERROR only in a step of an initialize()
\* call (the call itself, its continuation after an await, the settlement
\* of its join) or, from ERROR, by the end of leave() (IDLE); no transport
\* event, timer callback, rejoin failure or completion of a publish or
\* unpublish moves it.
C20_TerminalStates ==
  [][(state \in {"IDLE", "ERROR"} /\ state' # state) =>
       \/ NotesNext("initialize") # {}
       \/ initPc' # initPc
       \/ initJoins' < initJoins
       \/ /\ state = "ERROR"
          /\ state' = "IDLE"
          /\ NotesNext("leaveResolved") # {}]_vars

\* C21: whenever the state is RECONNECTING with a session identity held and
\* the transport is connected, the service is on its way to READY: a
\* reconnection timer is pending or a rejoin, a queued operation or a
\* lifecycle call is under way, so that it does not stay in RECONNECTING.
C21_ReconnectingLeadsToReady ==
  (state = "RECONNECTING" /\ currentUid # NoId /\ tconn = "CONNECTED") =>
    \/ timers > 0
    \/ rejoins > 0
    \/ rejoinTick # "none"
    \/ Running # {}
    \/ leavePc # "idle"
    \/ initPc # "idle"
    \/ initJoins > 0

\* C22: when the rejoin of the reconnection timer callback has succeeded
\* while an audio handle is held, a PUBLISH_AUDIO operation is submitted,
\* and the execution of that operation issues a transport publish call for
\* an audio track: its dispatch leads to the acquisition of a track and the
\* publish call, not to the mere enabling of the handle held.
C22_AudioRepublished ==
  /\ \A j \in Notes("rejoined") :
       Held(log[j].audio) =>
         \/ \E n \in 1..Len(operationQueue) : operationQueue[n].auto
         \/ \E d \in Notes("dispatch") : log[d].op.auto
  /\ \A j \in Notes("dispatch") :
       (log[j].op.auto /\ log[j].state \in Drainable /\ client) =>
         \E i \in Running :
           /\ drains[i].op = log[j].op
           /\ drains[i].pc \in {"createMicrophone", "publishAudio"}

\* C23: at most one reconnection timer is pending at any time.
C23_OneTimerPending == timers <= 1

\* C24: when doUnpublishVideo (doUnpublishAudio) has completed, as a queued
\* operation or inside leave(), the video (audio) handle is absent, whether
\* the transport unpublish call resolved or rejected.
C24_NoHandleAfterUnpublish ==
  \A j \in Notes("unpublished") : ~log[j].held

\* C25: state-change notifications are totally ordered across subscribers:
\* the callbacks are called in the order of the transitions, each transition
\* being delivered to every subscriber before a later transition is
\* delivered to any, also when a callback calls publishVideo.
C25_NotificationsInOrder ==
  \A a, b \in Notes("observe") : a < b => log[a].tr <= log[b].tr

\* C26: a track handle is held only for a track whose transport publish is
\* in flight or has succeeded: a publish that failed leaves no handle, so
\* no later publish is dispatched with the handle of a failed publish held.
C26_HandleOnlyIfPublished ==
  /\ videoTrack.pub \in {"none", "pending", "ok"}
  /\ audioTrack.pub \in {"none", "pending", "ok"}
  /\ \A j \in Notes("dispatch") :
       /\ log[j].op.type = "PUBLISH_VIDEO" =>
            log[j].video.pub \in {"none", "pending", "ok"}
       /\ log[j].op.type = "PUBLISH_AUDIO" =>
            log[j].audio.pub \in {"none", "pending", "ok"}

\* C27: a failure that indicates permission denial (its message contains
\* "permission" or "denied", or its code is PERMISSION_DENIED) is classified
\* PERMISSION and not recoverable, whatever else its message contains, and
\* the operation that failed with it is dropped, not retried.
C27_PermissionAlwaysFatal ==
  \A j \in Notes("fail") :
    (log[j].err.perm \/ log[j].err.code = "PERMISSION_DENIED") =>
      /\ log[j].type = "PERMISSION"
      /\ ~log[j].recoverable
      /\ j + 2 <= Len(log)
      /\ log[j + 2].k = "drop" /\ log[j + 2].op = log[j].op

\* C28: whenever no queued operation is executing, the state PUBLISHED
\* implies that a video handle is held.
C28_PublishedHoldsVideo ==
  (Running = {} /\ state = "PUBLISHED") => Held(videoTrack)

\* C29: the state is not READY or PUBLISHED while the reconnection timer
\* the service holds is pending.
C29_NotDrainableWhileTimerPending ==
  reconnectTimer = "pending" => state \notin Drainable

\* C30: every drain terminates and releases its flag: the flag is never true
\* with no drain loop running, a loop that ends leaves the queue empty and
\* the flag false, and when every transport call returns every running
\* loop ends, whichever operations fail and however they are classified.
C30_DrainTerminates ==
  /\ [](isProcessingQueue => Running # {})
  /\ [](\A j \in Notes("dispatch") : log[j].op.att <= MaxRetries + 1)
  /\ [][\A i \in 1..MaxDrains :
          (drains[i].pc # "idle" /\ drains'[i].pc = "idle") =>
            operationQueue' = <<>> /\ ~isProcessingQueue']_vars
  /\ (Running # {}) ~> (Running = {})

\* The drain has ended after it dropped an operation whose retries were
\* exhausted, and has released the flag.
C30_Witness ==
  /\ \E j \in Notes("drop") : log[j].op.att = 4
  /\ Running = {}
  /\ ~isProcessingQueue
  /\ operationQueue = <<>>

=============================================================================
